---------------------------- MODULE Spec2Model ----------------------------
(***************************************************************************)
(* A model of the TSP impulse-response tool chain: tsp_gen, white_noise,   *)
(* tsp_to_ir, adaptive_filter and ir_analyze.                              *)
(*                                                                         *)
(* Spec      runs of the five programs: the files they read, the buffers   *)
(*           they allocate, the handles they open, the buffers tsp_to_ir   *)
(*           pads, and the exit status.                                    *)
(* SpecSize  the FFT-size computation of tsp_to_ir over the whole range of *)
(*           lengths read_wav can return (32-bit int arithmetic).          *)
(* SpecDecay schroeder_integral of ir_analyze on impulse responses.        *)
(* SpecScan  the interval search and the regression of                     *)
(*           calculate_decay_time on any curve, and the RT60 main derives. *)
(* SpecSpectrum  the construction of the spectra H and INV_FILTER.         *)
(* SpecNlms  nlms_adaptive_filter on short signals.                        *)
(* SpecFill  the accesses of the fill loops of tsp_to_ir, any lengths.     *)
(*                                                                         *)
(* Numbers.  A 16-bit sample s divided by 32768.0 is exact in a double; it *)
(* is kept as the fraction <<s, 32768>>.  The transforms (simple_fft,      *)
(* simple_ifft) and the trigonometric spectrum values are not computed:    *)
(* a transformed buffer is only recorded as transformed (phases).          *)
(* Allocations whose result the code does not test are taken to succeed.   *)
(***************************************************************************)
EXTENDS Integers, Sequences, FiniteSets, TLC

VARIABLES
    prog,        \* the program that runs
    pc,          \* its position
    file,        \* the two input files as found on disk (file[1], file[2])
    heap,        \* heap buffers that are allocated and not yet freed
    handles,     \* FILE handles that are open
    exit,        \* -1 while running, else the status main returned
    outOpened,   \* the output file has been opened for writing (created/truncated)
    ioFailed,    \* some file operation or format validation has failed
    failKind,    \* why the run failed: none/input/format/alloc/rate/output
    phases,      \* computation steps executed so far
    rwk,         \* which read_wav call is (or was last) active: 1 or 2
    num_samples, \* read_wav's num_samples
    ret,         \* the value the last call returned
    samples,     \* samples[k]: the buffer read_wav k filled
    fs,          \* fs[k]: the sample rate read_wav k stored
    len,         \* len[k]: the sample count of input k as main sees it
    N,           \* tsp_to_ir: FFT size
    max_len,     \* tsp_to_ir: max(tsp_len, response_len)
    overflow,    \* a signed 32-bit operation overflowed
    TSP,         \* tsp_to_ir: padded excitation, index 0..N-1
    RESPONSE,    \* tsp_to_ir: padded response, index 0..N-1
    start_idx,   \* tsp_to_ir: offset of the copied part of the response
    copy_len,    \* tsp_to_ir: number of response samples copied
    i,           \* loop index of the loop that runs
    ir,          \* schroeder_integral: the impulse response
    decay_curve, \* the decay curve, index 0..len-1
    sum,         \* schroeder_integral: running energy
    max_energy,  \* schroeder_integral: decay_curve[0] after the summation
    start_db,    \* calculate_decay_time: upper level of the interval
    end_db,      \* calculate_decay_time: lower level of the interval
    end_idx,     \* calculate_decay_time: *end_idx
    sum_x,       \* calculate_decay_time: sum of i over the interval (x = i / fs)
    sum_y,       \* calculate_decay_time: sum of decay_curve[i]
    sum_xy,      \* calculate_decay_time: sum of i * decay_curve[i]
    sum_x2,      \* calculate_decay_time: sum of i * i
    n_pts,       \* calculate_decay_time: n, the number of points
    rt60,        \* calculate_decay_time: rt60, the value returned
    rt60_tn,     \* ir_analyze main: rt60_t10 or rt60_t20
    H,           \* tsp_gen: the up-TSP spectrum, index 0..N-1
    INV_FILTER,  \* tsp_to_ir: the down-TSP spectrum, index 0..N-1
    J,           \* effective length of the TSP
    n0,          \* tsp_gen: the circular shift
    x,           \* nlms_adaptive_filter: the input signal, index 0..x_len-1
    y,           \* nlms_adaptive_filter: the recorded signal
    h,           \* nlms_adaptive_filter: the coefficients, index 0..filter_len-1
    x_buf,       \* nlms_adaptive_filter: the delay line
    y_hat,       \* nlms_adaptive_filter: the filter output
    err,         \* nlms_adaptive_filter: e, the error
    x_power,     \* nlms_adaptive_filter: the input power
    mu,          \* nlms_adaptive_filter: the step size
    beta,        \* nlms_adaptive_filter: the regularization
    filter_len,  \* nlms_adaptive_filter: the number of coefficients
    n_idx        \* nlms_adaptive_filter: n, the sample index

vars == <<prog, pc, file, heap, handles, exit, outOpened, ioFailed, failKind,
          phases, rwk, num_samples, ret, samples, fs, len, N, max_len,
          overflow, TSP, RESPONSE, start_idx, copy_len, i,
          ir, decay_curve, sum, max_energy, start_db, end_db, end_idx,
          sum_x, sum_y, sum_xy, sum_x2, n_pts, rt60, rt60_tn,
          H, INV_FILTER, J, n0,
          x, y, h, x_buf, y_hat, err, x_power, mu, beta, filter_len, n_idx>>

\* the state of the regression of calculate_decay_time
regressVars == <<sum_x, sum_y, sum_xy, sum_x2, n_pts, rt60, rt60_tn>>

\* the state of the construction of the two spectra
spectrumVars == <<H, INV_FILTER, J, n0>>

\* the state of nlms_adaptive_filter
nlmsVars == <<x, y, h, x_buf, y_hat, err, x_power, mu, beta, filter_len, n_idx>>

\* the state of the decay analysis and of the other parts modelled on their
\* own, which a run of main as modelled in Spec leaves alone
analysisVars == <<ir, decay_curve, sum, max_energy, start_db, end_db, end_idx,
                  regressVars, spectrumVars, nlmsVars>>

---------------------------------------------------------------------------
(* Bounds of the model *)

\* longest excitation (first input) with modelled contents
MaxE == 2
\* longest response (second input) with modelled contents
MaxR == 5

(* Program constants *)

\* (double)s / 32768.0
FullScale == 32768
\* largest value of the 32-bit int header.data_size
IntMax == 2147483647

\* 16-bit sample values the input files are filled with
SampleVals == {-32768, 1}
\* sample rates found in headers
Rates == {44100, 48000}

SeqsUpTo(S, n) == UNION {[1..m -> S] : m \in 0..n}

---------------------------------------------------------------------------
(* Arithmetic of C *)

\* int division truncates toward zero
CDiv(a, b) == IF a >= 0 THEN a \div b ELSE -((-a) \div b)

\* a reader that takes the byte count for the sample count
NumSamples_NoHalving(data_size) == data_size

\* header.data_size / 2
NumSamples(data_size) == CDiv(data_size, 2)

\* (double)s / 32768.0 as an exact fraction
Normalize(s) == <<s, FullScale>>
\* the 0.0 calloc leaves
Zero == <<0, 1>>
IsZero(v) == v[1] = 0
\* equality of two such values
SameValue(v, w) == v[1] * w[2] = w[1] * v[2]

IsPow2(n) == \E e \in 0..30 : n = 2^e

---------------------------------------------------------------------------
(* Input files *)

\* a file that cannot be opened
Missing == [exists |-> FALSE, header |-> FALSE, magic |-> FALSE,
            sample_rate |-> 0, data_size |-> 0, data |-> <<>>]
\* a file shorter than the 44-byte header
ShortHeader == [Missing EXCEPT !.exists = TRUE]
\* a file whose header lacks one of RIFF/WAVE/fmt /data
BadMagic == [ShortHeader EXCEPT !.header = TRUE]

WavFile(rate, size, d) == [exists |-> TRUE, header |-> TRUE, magic |-> TRUE,
                           sample_rate |-> rate, data_size |-> size, data |-> d]

\* well-formed files holding up to n samples, and the odd headers:
\* data_size 1 and -1 (zero samples), -2 (a negative count), and a file
\* cut short after its first sample
WavFiles(rates, n) ==
    {WavFile(r, 2 * Len(d), d) : r \in rates, d \in SeqsUpTo(SampleVals, n)}
    \cup {WavFile(r, s, <<>>) : r \in rates, s \in {1, -1, -2}}
    \cup {WavFile(r, 4, <<1>>) : r \in rates}

Files(rates, n) == {Missing, ShortHeader, BadMagic} \cup WavFiles(rates, n)

---------------------------------------------------------------------------
(* The programs *)

Readers == {"tsp_to_ir", "adaptive_filter", "ir_analyze"}
TwoInputs == {"tsp_to_ir", "adaptive_filter"}
Programs == Readers \cup {"tsp_gen", "white_noise"}

\* the name of the buffer read_wav k allocates
SamplesBuf(p, k) ==
    CASE p = "tsp_to_ir"       -> IF k = 1 THEN "tsp_samples" ELSE "response_samples"
      [] p = "adaptive_filter" -> IF k = 1 THEN "input_samples" ELSE "output_samples"
      [] OTHER                 -> "ir_samples"

tsp_len == len[1]
response_len == len[2]
tsp_samples == samples[1]
response_samples == samples[2]

Running == exit = -1

---------------------------------------------------------------------------
(* read_wav, as the three readers define it *)

deconvVars == <<N, max_len, overflow, TSP, RESPONSE, start_idx, copy_len, i>>

\* a reader that accepts any 44 bytes as a header
MagicOk_Unchecked(f) == TRUE

\* the four memcmp tests of the header
MagicOk(f) == f.magic

\* what malloc(n * sizeof(int16_t)) can return: a negative n converts to a
\* size no allocator serves; malloc(0) may return NULL or a pointer; any
\* other request may fail
MallocOutcomes(n) == IF n < 0 THEN {FALSE} ELSE {TRUE, FALSE}

\* fread(*samples, 2, num_samples, fp) != num_samples
ShortRead(f, n) == Len(f.data) < n

\* the value read_wav returns on success
ReadWavRet(p, n) == IF p = "tsp_to_ir" THEN n ELSE 0

\* a failing return of read_wav: -1 to main
RwFail(kind, hd, hp) ==
    /\ pc' = "m_chk"
    /\ ret' = -1
    /\ ioFailed' = (ioFailed \/ kind # "alloc")
    /\ failKind' = kind
    /\ handles' = hd
    /\ heap' = hp

RwOpen ==
    /\ pc = "rw_open"
    /\ IF file[rwk].exists
         THEN /\ handles' = handles \cup {"fp"}
              /\ pc' = "rw_header"
              /\ UNCHANGED <<ret, ioFailed, failKind, heap>>
         ELSE RwFail("input", handles, heap)
    /\ UNCHANGED <<prog, file, exit, outOpened, phases, rwk, num_samples,
                   samples, fs, len, deconvVars>>
    /\ UNCHANGED analysisVars

RwHeader ==
    /\ pc = "rw_header"
    /\ IF file[rwk].header
         THEN /\ pc' = "rw_magic"
              /\ UNCHANGED <<ret, ioFailed, failKind, heap, handles>>
         ELSE RwFail("input", handles \ {"fp"}, heap)
    /\ UNCHANGED <<prog, file, exit, outOpened, phases, rwk, num_samples,
                   samples, fs, len, deconvVars>>
    /\ UNCHANGED analysisVars

RwMagic ==
    /\ pc = "rw_magic"
    /\ IF MagicOk(file[rwk])
         THEN /\ pc' = "rw_alloc"
              /\ fs' = [fs EXCEPT ![rwk] = file[rwk].sample_rate]
              /\ num_samples' = NumSamples(file[rwk].data_size)
              /\ UNCHANGED <<ret, ioFailed, failKind, heap, handles>>
         ELSE /\ RwFail("format", handles \ {"fp"}, heap)
              /\ UNCHANGED <<fs, num_samples>>
    /\ UNCHANGED <<prog, file, exit, outOpened, phases, rwk, samples, len,
                   deconvVars>>
    /\ UNCHANGED analysisVars

RwAlloc ==
    /\ pc = "rw_alloc"
    /\ \E ok \in MallocOutcomes(num_samples) :
         IF ok
           THEN /\ heap' = heap \cup {SamplesBuf(prog, rwk)}
                /\ pc' = "rw_data"
                /\ UNCHANGED <<ret, ioFailed, failKind, handles>>
           ELSE RwFail("alloc", handles \ {"fp"}, heap)
    /\ UNCHANGED <<prog, file, exit, outOpened, phases, rwk, num_samples,
                   samples, fs, len, deconvVars>>
    /\ UNCHANGED analysisVars

RwData ==
    /\ pc = "rw_data"
    /\ IF ShortRead(file[rwk], num_samples)
         THEN /\ RwFail("input", handles \ {"fp"},
                        heap \ {SamplesBuf(prog, rwk)})
              /\ UNCHANGED samples
         ELSE /\ samples' = [samples EXCEPT
                               ![rwk] = SubSeq(file[rwk].data, 1, num_samples)]
              /\ handles' = handles \ {"fp"}
              /\ ret' = ReadWavRet(prog, num_samples)
              /\ pc' = "m_chk"
              /\ UNCHANGED <<ioFailed, failKind, heap>>
    /\ UNCHANGED <<prog, file, exit, outOpened, phases, rwk, num_samples,
                   fs, len, deconvVars>>
    /\ UNCHANGED analysisVars

ReadWav == RwOpen \/ RwHeader \/ RwMagic \/ RwAlloc \/ RwData

---------------------------------------------------------------------------
(* main of the readers: the reads and the rate test *)

\* the step that follows the reads
AfterReads(p) == IF p \in TwoInputs THEN "m_rate" ELSE "i_decay"

\* the sample count main goes on with: read_wav's return value in
\* tsp_to_ir, the count stored through the pointer elsewhere
SeenLen(p, r, n) == IF p = "tsp_to_ir" THEN r ELSE n

\* if (read_wav(...) < 0) { free what the earlier read allocated; return 1; }
MainReadFailed ==
    /\ pc = "m_chk"
    /\ ret < 0
    /\ heap' = IF rwk = 2 THEN heap \ {SamplesBuf(prog, 1)} ELSE heap
    /\ exit' = 1
    /\ pc' = "exit"
    /\ UNCHANGED <<prog, file, handles, outOpened, ioFailed, failKind, phases,
                   rwk, num_samples, ret, samples, fs, len, deconvVars>>
    /\ UNCHANGED analysisVars

MainReadOk ==
    /\ pc = "m_chk"
    /\ ret >= 0
    /\ len' = [len EXCEPT ![rwk] = SeenLen(prog, ret, num_samples)]
    /\ IF rwk = 1 /\ prog \in TwoInputs
         THEN rwk' = 2 /\ pc' = "rw_open"
         ELSE rwk' = rwk /\ pc' = AfterReads(prog)
    /\ UNCHANGED <<prog, file, heap, handles, exit, outOpened, ioFailed,
                   failKind, phases, num_samples, ret, samples, fs,
                   deconvVars>>
    /\ UNCHANGED analysisVars

\* a main that never sees the rates differ
RateMismatch_Never(a, b) == FALSE

\* if (fs_tsp != fs_response)
RateMismatch(a, b) == a # b

\* the step that follows a passed rate test
AfterRate(p) == IF p = "tsp_to_ir" THEN "t_size" ELSE "a_convert"

MainRate ==
    /\ pc = "m_rate"
    /\ IF RateMismatch(fs[1], fs[2])
         THEN /\ heap' = heap \ {SamplesBuf(prog, 1), SamplesBuf(prog, 2)}
              /\ exit' = 1
              /\ failKind' = "rate"
              /\ pc' = "exit"
         ELSE /\ pc' = AfterRate(prog)
              /\ UNCHANGED <<heap, exit, failKind>>
    /\ UNCHANGED <<prog, file, handles, outOpened, ioFailed, phases, rwk,
                   num_samples, ret, samples, fs, len, deconvVars>>
    /\ UNCHANGED analysisVars

---------------------------------------------------------------------------
(* tsp_to_ir: FFT size and the padded buffers *)

ioVars == <<handles, exit, outOpened, ioFailed, failKind, rwk, num_samples,
            ret, samples, fs, len>>

Max(a, b) == IF a > b THEN a ELSE b

\* while (N < max_len)
SizeLoopCond(n, m) == n < m

\* the largest n with n * k in the range of a 32-bit int, for k > 0
IntMaxDiv(k) == IntMax \div k

\* N <<= 1 leaves the range of a 32-bit int
ShlOverflows(n) == n > IntMax \div 2

\* int N = 1; int max_len = ...
TSize ==
    /\ pc = "t_size"
    /\ N' = 1
    /\ max_len' = Max(tsp_len, response_len)
    /\ pc' = "t_size_loop"
    /\ UNCHANGED <<prog, file, heap, phases, ioVars, overflow, TSP, RESPONSE,
                   start_idx, copy_len, i>>
    /\ UNCHANGED analysisVars

\* one test of the while loop, and one N <<= 1 when it passes
TSizeLoop ==
    /\ pc = "t_size_loop"
    /\ IF SizeLoopCond(N, max_len)
         THEN IF ShlOverflows(N)
                THEN overflow' = TRUE /\ pc' = "undefined" /\ N' = N
                ELSE N' = 2 * N /\ UNCHANGED <<pc, overflow>>
         ELSE pc' = "t_tsp_alloc" /\ UNCHANGED <<N, overflow>>
    /\ UNCHANGED <<prog, file, heap, phases, ioVars, max_len, TSP, RESPONSE,
                   start_idx, copy_len, i>>
    /\ UNCHANGED analysisVars

\* calloc(n, sizeof(double complex))
Calloc(n) == [j \in 0..(n - 1) |-> Zero]

\* what simple_fft leaves in the buffer: the spectrum of what it was given
Transformed(buf) == [spectrum_of |-> buf]

TTspAlloc ==
    /\ pc = "t_tsp_alloc"
    /\ heap' = heap \cup {"TSP"}
    /\ TSP' = Calloc(N)
    /\ i' = 0
    /\ pc' = "t_tsp_fill"
    /\ UNCHANGED <<prog, file, phases, ioVars, N, max_len, overflow, RESPONSE,
                   start_idx, copy_len>>
    /\ UNCHANGED analysisVars

\* for (int i = 0; i < tsp_len; i++) TSP[i] = tsp_samples[i] / 32768.0
TTspFill ==
    /\ pc = "t_tsp_fill"
    /\ IF i < tsp_len
         THEN /\ TSP' = [TSP EXCEPT ![i] = Normalize(tsp_samples[i + 1])]
              /\ i' = i + 1
              /\ pc' = pc
         ELSE pc' = "t_tsp_fft" /\ UNCHANGED <<TSP, i>>
    /\ UNCHANGED <<prog, file, heap, phases, ioVars, N, max_len, overflow,
                   RESPONSE, start_idx, copy_len>>
    /\ UNCHANGED analysisVars

TTspFft ==
    /\ pc = "t_tsp_fft"
    /\ TSP' = Transformed(TSP)
    /\ phases' = phases \cup {"fft_tsp"}
    /\ pc' = "t_resp_alloc"
    /\ UNCHANGED <<prog, file, heap, ioVars, N, max_len, overflow, RESPONSE,
                   start_idx, copy_len, i>>
    /\ UNCHANGED analysisVars

\* (response_len >= tsp_len * 2) ? tsp_len : 0
StartIdx(E, R) == IF R >= E * 2 THEN E ELSE 0

\* a copy length that takes no account of start_idx
CopyLen_Whole(R, start, n) == IF R < n THEN R ELSE n

\* (response_len - start_idx < N) ? response_len - start_idx : N
CopyLen(R, start, n) == IF R - start < n THEN R - start ELSE n

TRespAlloc ==
    /\ pc = "t_resp_alloc"
    /\ heap' = heap \cup {"RESPONSE"}
    /\ RESPONSE' = Calloc(N)
    /\ start_idx' = StartIdx(tsp_len, response_len)
    /\ copy_len' = CopyLen(response_len, start_idx', N)
    /\ i' = 0
    /\ pc' = "t_resp_fill"
    /\ UNCHANGED <<prog, file, phases, ioVars, N, max_len, overflow, TSP>>
    /\ UNCHANGED analysisVars

\* for (int i = 0; i < copy_len; i++)
\*     RESPONSE[i] = response_samples[start_idx + i] / 32768.0
TRespFill ==
    /\ pc = "t_resp_fill"
    /\ IF i < copy_len
         THEN /\ RESPONSE' = [RESPONSE EXCEPT
                    ![i] = Normalize(response_samples[start_idx + i + 1])]
              /\ i' = i + 1
              /\ pc' = pc
         ELSE pc' = "t_resp_fft" /\ UNCHANGED <<RESPONSE, i>>
    /\ UNCHANGED <<prog, file, heap, phases, ioVars, N, max_len, overflow,
                   TSP, start_idx, copy_len>>
    /\ UNCHANGED analysisVars

TRespFft ==
    /\ pc = "t_resp_fft"
    /\ RESPONSE' = Transformed(RESPONSE)
    /\ phases' = phases \cup {"fft_response"}
    /\ pc' = "t_inv_filter"
    /\ UNCHANGED <<prog, file, heap, ioVars, N, max_len, overflow, TSP,
                   start_idx, copy_len, i>>
    /\ UNCHANGED analysisVars

\* a step of main that allocates buffers bufs and computes step, with no
\* effect on files
Compute(at, bufs, step, next) ==
    /\ pc = at
    /\ heap' = heap \cup bufs
    /\ phases' = phases \cup {step}
    /\ pc' = next
    /\ UNCHANGED <<prog, file, ioVars, deconvVars>>
    /\ UNCHANGED analysisVars

\* the down-TSP spectrum
TInvFilter == Compute("t_inv_filter", {"INV_FILTER"}, "inv_filter", "t_divide")
\* RESPONSE[k] * INV_FILTER[k], or 0 where |TSP[k]| <= 1e-10
TDivide == Compute("t_divide", {"IR_FREQ"}, "divide", "t_ifft")
TIfft == Compute("t_ifft", {}, "ifft", "t_normalize")
\* max_amp
TNormalize == Compute("t_normalize", {}, "normalize", "t_quantize")
\* ir_samples[i] = (int16_t)(sample * 32767.0)
TQuantize == Compute("t_quantize", {"ir_samples"}, "quantize", "w_open")

FftSize == TSize \/ TSizeLoop

Deconvolve ==
    \/ TTspAlloc \/ TTspFill \/ TTspFft
    \/ TRespAlloc \/ TRespFill \/ TRespFft
    \/ TInvFilter \/ TDivide \/ TIfft \/ TNormalize \/ TQuantize

---------------------------------------------------------------------------
(* adaptive_filter: main after the rate test *)

\* min_len, x, y and the conversion to doubles
AConvert == Compute("a_convert", {"x", "y"}, "convert", "a_nlms")
\* h = calloc(...); nlms_adaptive_filter allocates and frees x_buf itself
ANlms == Compute("a_nlms", {"h"}, "nlms", "a_normalize")
ANormalize == Compute("a_normalize", {}, "normalize", "a_quantize")
AQuantize == Compute("a_quantize", {"ir_samples"}, "quantize", "w_open")

Adaptive == AConvert \/ ANlms \/ ANormalize \/ AQuantize

---------------------------------------------------------------------------
(* write_wav and the end of main, tsp_to_ir and adaptive_filter *)

\* every buffer main of p allocates
MainBuffers(p) ==
    IF p = "tsp_to_ir"
      THEN {"tsp_samples", "response_samples", "TSP", "RESPONSE",
            "INV_FILTER", "IR_FREQ", "ir_samples"}
      ELSE {"input_samples", "output_samples", "x", "y", "h", "ir_samples"}

\* the computation steps main of p runs before write_wav
Computation(p) ==
    IF p = "tsp_to_ir"
      THEN {"fft_tsp", "fft_response", "inv_filter", "divide", "ifft",
            "normalize", "quantize"}
      ELSE {"convert", "nlms", "normalize", "quantize"}

\* fopen(filename, "wb")
WOpen ==
    /\ pc = "w_open"
    /\ \E ok \in BOOLEAN :
         IF ok
           THEN /\ handles' = handles \cup {"fp"}
                /\ outOpened' = TRUE
                /\ pc' = "w_write"
                /\ UNCHANGED <<ret, ioFailed, failKind>>
           ELSE /\ ret' = -1
                /\ ioFailed' = TRUE
                /\ failKind' = "output"
                /\ pc' = "m_wchk"
                /\ UNCHANGED <<handles, outOpened>>
    /\ UNCHANGED <<prog, file, heap, exit, phases, rwk, num_samples, samples,
                   fs, len, deconvVars>>
    /\ UNCHANGED analysisVars

\* the status write_wav returns once the file is open: the results of the
\* two fwrite calls are not looked at
WriteStatus(written) == 0

\* fwrite(header); fwrite(samples); fclose(fp); return 0
WWrite ==
    /\ pc = "w_write"
    /\ \E written \in BOOLEAN :
         /\ ioFailed' = (ioFailed \/ ~written)
         /\ ret' = WriteStatus(written)
    /\ handles' = handles \ {"fp"}
    /\ pc' = "m_wchk"
    /\ UNCHANGED <<prog, file, heap, exit, outOpened, failKind, phases, rwk,
                   num_samples, samples, fs, len, deconvVars>>
    /\ UNCHANGED analysisVars

\* if (write_wav(...) < 0) { free all; return 1; } ... free all; return 0;
MainWriteChk ==
    /\ pc = "m_wchk"
    /\ heap' = heap \ MainBuffers(prog)
    /\ exit' = IF ret < 0 THEN 1 ELSE 0
    /\ pc' = "exit"
    /\ UNCHANGED <<prog, file, handles, outOpened, ioFailed, failKind, phases,
                   rwk, num_samples, ret, samples, fs, len, deconvVars>>
    /\ UNCHANGED analysisVars

WriteWav == WOpen \/ WWrite \/ MainWriteChk

---------------------------------------------------------------------------
(* ir_analyze: main after the read *)

\* decay_curve, schroeder_integral and the two calculate_decay_time calls
IDecay == Compute("i_decay", {"decay_curve"}, "decay", "i_export")

\* the status main returns after the optional export
ExportStatus(opened) == 0

\* if (argc > 2) { fp = fopen(curve_file, "w"); if (fp) {...; fclose(fp);} }
\* free(ir_samples); free(decay_curve); return 0;
IExport ==
    /\ pc = "i_export"
    /\ \E asked \in BOOLEAN, opened \in BOOLEAN, written \in BOOLEAN :
         /\ outOpened' = (asked /\ opened)
         /\ ioFailed' = (ioFailed \/ (asked /\ ~(opened /\ written)))
         /\ exit' = ExportStatus(asked /\ opened)
    /\ heap' = heap \ {"ir_samples", "decay_curve"}
    /\ pc' = "exit"
    /\ UNCHANGED <<prog, file, handles, failKind, phases, rwk, num_samples,
                   ret, samples, fs, len, deconvVars>>
    /\ UNCHANGED analysisVars

Analyze == IDecay \/ IExport

---------------------------------------------------------------------------
(* tsp_gen and white_noise *)

\* the buffer the generator p works in
GenBuffer(p) == IF p = "tsp_gen" THEN "H" ELSE "buffer"

\* malloc; if (!H) return 1;
GAlloc ==
    /\ pc = "g_alloc"
    /\ \E ok \in BOOLEAN :
         IF ok
           THEN heap' = heap \cup {GenBuffer(prog)} /\ pc' = "g_build"
                /\ UNCHANGED <<exit, failKind>>
           ELSE exit' = 1 /\ failKind' = "alloc" /\ pc' = "exit"
                /\ UNCHANGED heap
    /\ UNCHANGED <<prog, file, handles, outOpened, ioFailed, phases, rwk,
                   num_samples, ret, samples, fs, len, deconvVars>>
    /\ UNCHANGED analysisVars

\* tsp_gen: spectrum, simple_ifft, max_amp; white_noise: the rand() loop
GBuild ==
    /\ pc = "g_build"
    /\ phases' = phases \cup {"generate"}
    /\ pc' = "g_open"
    /\ UNCHANGED <<prog, file, heap, ioVars, deconvVars>>
    /\ UNCHANGED analysisVars

\* what a generator has freed when fopen of its output fails:
\* white_noise frees buffer, tsp_gen returns with H allocated
FreedOnOpenFailure(p) == IF p = "white_noise" THEN {"buffer"} ELSE {}

\* fopen(filename, "wb"); if (!fp) {...; return 1;}
GOpen ==
    /\ pc = "g_open"
    /\ \E ok \in BOOLEAN :
         IF ok
           THEN /\ handles' = handles \cup {"fp"}
                /\ outOpened' = TRUE
                /\ pc' = "g_write"
                /\ UNCHANGED <<heap, exit, ioFailed, failKind>>
           ELSE /\ heap' = heap \ FreedOnOpenFailure(prog)
                /\ exit' = 1
                /\ ioFailed' = TRUE
                /\ failKind' = "output"
                /\ pc' = "exit"
                /\ UNCHANGED <<handles, outOpened>>
    /\ UNCHANGED <<prog, file, phases, rwk, num_samples, ret, samples, fs,
                   len, deconvVars>>
    /\ UNCHANGED analysisVars

\* the fwrite calls (results not looked at), fclose, free, return 0
GWrite ==
    /\ pc = "g_write"
    /\ \E written \in BOOLEAN : ioFailed' = (ioFailed \/ ~written)
    /\ handles' = handles \ {"fp"}
    /\ heap' = heap \ {GenBuffer(prog)}
    /\ exit' = 0
    /\ pc' = "exit"
    /\ UNCHANGED <<prog, file, outOpened, failKind, phases, rwk, num_samples,
                   ret, samples, fs, len, deconvVars>>
    /\ UNCHANGED analysisVars

Generate == GAlloc \/ GBuild \/ GOpen \/ GWrite

---------------------------------------------------------------------------
(* Runs of the programs *)

\* where main of p starts
Entry(p) == IF p \in Readers THEN "rw_open" ELSE "g_alloc"

\* the input files of a run of p
InputFiles(p) ==
    CASE p \in TwoInputs -> Files({48000}, MaxE) \X Files(Rates, MaxR)
      [] p = "ir_analyze" -> Files({48000}, MaxE) \X {Missing}
      [] OTHER -> {<<Missing, Missing>>}

\* the regression has not run
NoRegression ==
    /\ sum_x = 0
    /\ sum_y = 0
    /\ sum_xy = 0
    /\ sum_x2 = 0
    /\ n_pts = 0
    /\ rt60 = <<0, 1>>
    /\ rt60_tn = <<0, 1>>

\* no spectrum is under construction
NoSpectrum ==
    /\ H = <<>>
    /\ INV_FILTER = <<>>
    /\ J = 0
    /\ n0 = 0

\* nlms_adaptive_filter is not running
NoNlms ==
    /\ x = <<>>
    /\ y = <<>>
    /\ h = <<>>
    /\ x_buf = <<>>
    /\ y_hat = <<0, 1>>
    /\ err = <<0, 1>>
    /\ x_power = <<0, 1>>
    /\ mu = <<0, 1>>
    /\ beta = <<0, 1>>
    /\ filter_len = 0
    /\ n_idx = 0

\* no decay analysis is modelled in this run
NoAnalysis ==
    /\ ir = <<>>
    /\ decay_curve = <<>>
    /\ sum = <<0, 0>>
    /\ max_energy = <<0, 0>>
    /\ start_db = 0
    /\ end_db = 0
    /\ end_idx = 0
    /\ NoRegression
    /\ NoSpectrum
    /\ NoNlms

InitLocals ==
    /\ heap = {}
    /\ handles = {}
    /\ exit = -1
    /\ outOpened = FALSE
    /\ ioFailed = FALSE
    /\ failKind = "none"
    /\ phases = {}
    /\ rwk = 1
    /\ num_samples = 0
    /\ ret = 0
    /\ samples = <<<<>>, <<>>>>
    /\ fs = <<0, 0>>
    /\ len = <<0, 0>>
    /\ N = 0
    /\ max_len = 0
    /\ overflow = FALSE
    /\ TSP = <<>>
    /\ RESPONSE = <<>>
    /\ start_idx = 0
    /\ copy_len = 0
    /\ i = 0
    /\ NoAnalysis

Init ==
    /\ prog \in Programs
    /\ file \in InputFiles(prog)
    /\ pc = Entry(prog)
    /\ InitLocals

Next ==
    \/ ReadWav
    \/ MainReadFailed \/ MainReadOk \/ MainRate
    \/ FftSize
    \/ Deconvolve
    \/ Adaptive
    \/ WriteWav
    \/ Analyze
    \/ Generate

Spec == Init /\ [][Next]_vars

---------------------------------------------------------------------------
(* The FFT size over the whole range of lengths *)

\* header.data_size values: small ones, and those around the powers of two
\* up to the largest 32-bit int
DataSizes == {0, 1, 2, 3, 4, 5, 6, 8, 10, 16, 18, 65534, 65536, 65538,
              2^30 - 2, 2^30, 2^30 + 2, IntMax - 3, IntMax - 1, IntMax}

\* the state of tsp_to_ir after two successful reads with equal rates; the
\* sample contents of such long inputs are not kept
InitSize ==
    /\ prog = "tsp_to_ir"
    /\ \E d1 \in DataSizes, d2 \in DataSizes :
         /\ file = <<WavFile(48000, d1, <<>>), WavFile(48000, d2, <<>>)>>
         /\ len = <<NumSamples(d1), NumSamples(d2)>>
    /\ pc = "t_size"
    /\ heap = {"tsp_samples", "response_samples"}
    /\ handles = {}
    /\ exit = -1
    /\ outOpened = FALSE
    /\ ioFailed = FALSE
    /\ failKind = "none"
    /\ phases = {}
    /\ rwk = 2
    /\ num_samples = len[2]
    /\ ret = len[2]
    /\ samples = <<<<>>, <<>>>>
    /\ fs = <<48000, 48000>>
    /\ N = 0
    /\ max_len = 0
    /\ overflow = FALSE
    /\ TSP = <<>>
    /\ RESPONSE = <<>>
    /\ start_idx = 0
    /\ copy_len = 0
    /\ i = 0
    /\ NoAnalysis

NextSize == TSize \/ TSizeLoop

SpecSize == InitSize /\ [][NextSize]_vars

---------------------------------------------------------------------------
(* Claims about the runs *)

ReadPcs == {"rw_open", "rw_header", "rw_magic", "rw_alloc", "rw_data", "m_chk"}

\* input k is a file read_wav reads without complaint
Readable(k) ==
    /\ file[k].exists /\ file[k].header /\ file[k].magic
    /\ CDiv(file[k].data_size, 2) >= 0
    /\ Len(file[k].data) >= CDiv(file[k].data_size, 2)

\* input k is a well-formed file of zero samples
ZeroSamples(k) ==
    /\ file[k].exists /\ file[k].header /\ file[k].magic
    /\ CDiv(file[k].data_size, 2) = 0

\* C1: in tsp_to_ir, for E >= 1 and R >= 1, the padded response handed to
\* the forward FFT holds response[E+j]/32768 at j = 0..E-1 and zero elsewhere
\* when R >= 2E, and response[j]/32768 at j = 0..R-1 and zero elsewhere
\* when R < 2E.
C1_SecondPeriodOnly ==
    (prog = "tsp_to_ir" /\ pc = "t_resp_fft" /\ tsp_len >= 1 /\ response_len >= 1)
    => \A j \in 0..(N - 1) :
         IF response_len >= 2 * tsp_len
           THEN IF j < tsp_len
                  THEN SameValue(RESPONSE[j],
                                 Normalize(response_samples[tsp_len + j + 1]))
                  ELSE IsZero(RESPONSE[j])
           ELSE IF j < response_len
                  THEN SameValue(RESPONSE[j], Normalize(response_samples[j + 1]))
                  ELSE IsZero(RESPONSE[j])

\* C2: for all lengths read_wav can return, the FFT size tsp_to_ir computes
\* is the smallest power of two that is at least max(E, R), and the doubling
\* loop ends (N never passes 2^30) without overflowing a 32-bit int.
C2_SmallestPowerOfTwo ==
    /\ ~overflow
    /\ pc = "t_size_loop" => IsPow2(N) /\ (N = 1 \/ N \div 2 < max_len)
    /\ pc = "t_tsp_alloc" =>
         /\ IsPow2(N)
         /\ N >= Max(tsp_len, response_len)
         /\ (N = 1 \/ N \div 2 < Max(tsp_len, response_len))

\* the largest inputs: 2^30 - 1 samples, FFT size 2^30
C2_Witness ==
    /\ pc = "t_tsp_alloc"
    /\ Max(tsp_len, response_len) = 2^30 - 1
    /\ N = 2^30

\* C3: in tsp_to_ir and adaptive_filter, once both reads are over and the
\* rates differ, the run only tests the rates and returns 1: no FFT or NLMS
\* step has run and the output file has not been opened.
C3_RateMismatchAborts ==
    (prog \in TwoInputs /\ rwk = 2 /\ pc \notin ReadPcs /\ fs[1] # fs[2])
    => /\ pc \in {"m_rate", "exit"}
       /\ pc = "exit" => exit = 1
       /\ phases = {}
       /\ ~outOpened

\* both files were read and the run ended on the rate test
C3_Witness ==
    /\ prog \in TwoInputs /\ Readable(1) /\ Readable(2)
    /\ fs[1] # fs[2]
    /\ failKind = "rate" /\ pc = "exit" /\ exit = 1

\* C4: in tsp_to_ir, a run whose excitation or response is a well-formed
\* file of zero samples ends with status 1 and writes no output file.
C4_ZeroLengthAborts ==
    (prog = "tsp_to_ir" /\ pc = "exit"
       /\ (ZeroSamples(1) \/ (Readable(1) /\ ZeroSamples(2))))
    => exit = 1 /\ ~outOpened

\* C5: in tsp_to_ir and adaptive_filter the output file is opened only
\* after both inputs were read and found valid, the rates matched and the
\* whole computation ran; a run that returns 1 for an input, format or rate
\* failure has not opened the output file.
C5_OutputOnlyAfterSuccess ==
    prog \in TwoInputs =>
      /\ outOpened =>
           /\ Readable(1) /\ Readable(2)
           /\ file[1].sample_rate = file[2].sample_rate
           /\ Computation(prog) \subseteq phases
      /\ (exit = 1 /\ failKind \in {"input", "format", "rate"}) => ~outOpened

\* a run that wrote its output
C5_Witness ==
    prog \in TwoInputs /\ outOpened /\ pc = "exit" /\ exit = 0

\* C6: when read_wav returns -1, and when main of tsp_gen, tsp_to_ir,
\* adaptive_filter or ir_analyze returns 1, every buffer allocated so far by
\* that function is freed and every handle it opened is closed.
C6_NoLeakOnFailure ==
    prog # "white_noise" =>
      /\ (pc = "m_chk" /\ ret = -1) =>
           handles = {} /\ SamplesBuf(prog, rwk) \notin heap
      /\ exit = 1 => heap = {} /\ handles = {}

\* C7: a program returns 0 only if every file operation it attempted
\* succeeded, and 1 whenever an open, read, write or format test failed.
C7_ExitStatus ==
    pc = "exit" =>
      /\ exit = 0 => ~ioFailed
      /\ ioFailed => exit = 1

---------------------------------------------------------------------------
(* ir_analyze: schroeder_integral *)

(***************************************************************************)
(* Doubles of the decay analysis.  An energy is a sum of squares of        *)
(* s/32768, a multiple of 2^-30: it is kept exactly as <<hi, lo>>, the     *)
(* number (hi * 2^30 + lo) / 2^30 with 0 <= lo < 2^30.  The double sum is  *)
(* this exact value as long as it stays below 2^23 (some 8 million         *)
(* full-scale samples).  An entry of decay_curve is                        *)
(*   kind "energy"  the energy e                                           *)
(*   kind "db"      10 * log10(e / m), for energies 0 < e <= m             *)
(*   kind "const"   the constant c                                         *)
(*   kind "uninit"  what malloc left                                       *)
(* log10 is not evaluated; two "db" entries over the same m are ordered as *)
(* their e, and a "db" entry is compared to -100 by e * 10^10 against m.   *)
(***************************************************************************)

\* other variables of Spec that the decay analysis leaves alone
runVars == <<prog, file, heap, handles, exit, outOpened, ioFailed, failKind,
             phases, rwk, num_samples, samples, fs, len, N, max_len, overflow,
             TSP, RESPONSE, copy_len, spectrumVars, nlmsVars>>

\* longest impulse response of the short inputs
MaxIr == 3
\* number of full-scale samples heading the loud inputs
LoudLen == 10
\* longest tail that follows them
MaxTail == 2
\* value of the -100.0 floor
FloorDb == -100
\* 10^10 = 5^10 * 2^10
FivePow10 == 5^10

\* sample values of the impulse responses
IrVals == {-32768, 0, 1}

Limb == 2^30

\* sample * sample, for sample = s / 32768.0
Square(s) == <<(s * s) \div Limb, (s * s) % Limb>>

EAdd(a, b) == <<a[1] + b[1] + (a[2] + b[2]) \div Limb, (a[2] + b[2]) % Limb>>

\* a <= b
ELeq(a, b) == a[1] < b[1] \/ (a[1] = b[1] /\ a[2] <= b[2])

\* e > 0
EPositive(e) == e # <<0, 0>>

\* a sum that restarts at every sample
Accumulate_Overwrite(acc, sq) == sq

\* sum += sample * sample
Accumulate(acc, sq) == EAdd(acc, sq)

Val(k, e, m, c) == [kind |-> k, e |-> e, m |-> m, c |-> c]
Uninit == Val("uninit", <<0, 0>>, <<0, 0>>, 0)
Energy(e) == Val("energy", e, <<0, 0>>, 0)
Db(e, m) == Val("db", e, m, 0)
Const(c) == Val("const", <<0, 0>>, <<0, 0>>, c)

\* e / m < 10^-10, that is 10 * log10(e / m) < -100: e * 5^10 < m / 2^10
\* (for m below 2^41)
BelowFloor(e, m) ==
    /\ e[1] = 0
    /\ e[2] <= IntMaxDiv(FivePow10)
    /\ e[2] * FivePow10 < m[1] * 2^20 + (m[2] + 1023) \div 1024

\* e / m <= 10^-10
AtOrBelowFloor(e, m) ==
    /\ e[1] = 0
    /\ e[2] <= IntMaxDiv(FivePow10)
    /\ e[2] * FivePow10 <= m[1] * 2^20 + m[2] \div 1024

\* the double a is at least the double b
Geq(a, b) ==
    CASE a.kind = "energy" /\ b.kind = "energy" -> ELeq(b.e, a.e)
      [] a.kind = "db" /\ b.kind = "db" /\ a.m = b.m -> ELeq(b.e, a.e)
      [] a.kind = "const" /\ b.kind = "const" -> a.c >= b.c
      [] a.kind = "db" /\ b.kind = "const" /\ b.c = FloorDb ->
             ~BelowFloor(a.e, a.m)
      [] a.kind = "const" /\ b.kind = "db" /\ a.c = FloorDb ->
             AtOrBelowFloor(b.e, b.m)

\* the double v is c
IsConst(v, c) ==
    \/ v.kind = "const" /\ v.c = c
    \/ v.kind = "energy" /\ v.e = <<0, 0>> /\ c = 0
    \/ v.kind = "db" /\ v.e = v.m /\ c = 0

ir_len == Len(ir)

\* double sum = 0.0; for (int i = len - 1; ...
SStart ==
    /\ pc = "s_start"
    /\ sum' = <<0, 0>>
    /\ i' = ir_len - 1
    /\ pc' = "s_sum"
    /\ UNCHANGED regressVars
    /\ UNCHANGED <<runVars, ret, start_idx, ir, decay_curve, max_energy,
                   start_db, end_db, end_idx>>

\* one pass of the backward summation
SSum ==
    /\ pc = "s_sum"
    /\ IF i >= 0
         THEN /\ sum' = Accumulate(sum, Square(ir[i + 1]))
              /\ decay_curve' = [decay_curve EXCEPT ![i] = Energy(sum')]
              /\ i' = i - 1
              /\ UNCHANGED pc
         ELSE /\ pc' = "s_max"
              /\ UNCHANGED <<sum, decay_curve, i>>
    /\ UNCHANGED regressVars
    /\ UNCHANGED <<runVars, ret, start_idx, ir, max_energy, start_db, end_db,
                   end_idx>>

\* if (max_energy > 0): the dB conversion runs
Converts(m) == EPositive(m)

\* double max_energy = decay_curve[0]; if (max_energy > 0) {
SMax ==
    /\ pc = "s_max"
    /\ max_energy' = decay_curve[0].e
    /\ IF Converts(max_energy')
         THEN pc' = "s_db" /\ i' = 0
         ELSE pc' = "s_done" /\ UNCHANGED i
    /\ UNCHANGED regressVars
    /\ UNCHANGED <<runVars, ret, start_idx, ir, decay_curve, sum, start_db,
                   end_db, end_idx>>

\* 10.0 * log10(decay_curve[i] / max_energy), or -100.0
ToDb(v, m) == IF EPositive(v.e) THEN Db(v.e, m) ELSE Const(FloorDb)

\* one pass of the conversion loop
SDb ==
    /\ pc = "s_db"
    /\ IF i < ir_len
         THEN /\ decay_curve' = [decay_curve EXCEPT
                                   ![i] = ToDb(decay_curve[i], max_energy)]
              /\ i' = i + 1
              /\ UNCHANGED pc
         ELSE /\ pc' = "s_done"
              /\ UNCHANGED <<decay_curve, i>>
    /\ UNCHANGED regressVars
    /\ UNCHANGED <<runVars, ret, start_idx, ir, sum, max_energy, start_db,
                   end_db, end_idx>>

\* impulse responses: every short one, and loud ones, a run of full-scale
\* samples followed by a short tail
Loud == [j \in 1..LoudLen |-> -32768]
ImpulseResponses ==
    (SeqsUpTo(IrVals, MaxIr) \ {<<>>})
    \cup {Loud \o t : t \in SeqsUpTo(IrVals, MaxTail)}

\* the state schroeder_integral is called in: nothing else of main is
\* looked at here
NoRun ==
    /\ prog = "ir_analyze"
    /\ file = <<Missing, Missing>>
    /\ heap = {"ir_samples", "decay_curve"}
    /\ handles = {}
    /\ exit = -1
    /\ outOpened = FALSE
    /\ ioFailed = FALSE
    /\ failKind = "none"
    /\ phases = {}
    /\ rwk = 1
    /\ num_samples = 0
    /\ samples = <<<<>>, <<>>>>
    /\ len = <<0, 0>>
    /\ N = 0
    /\ max_len = 0
    /\ overflow = FALSE
    /\ TSP = <<>>
    /\ RESPONSE = <<>>
    /\ copy_len = 0
    /\ NoSpectrum
    /\ NoNlms

InitDecay ==
    /\ NoRun
    /\ ir \in ImpulseResponses
    /\ decay_curve = [j \in 0..(ir_len - 1) |-> Uninit]
    /\ pc = "s_start"
    /\ i = 0
    /\ ret = 0
    /\ start_idx = 0
    /\ sum = <<0, 0>>
    /\ max_energy = <<0, 0>>
    /\ start_db = 0
    /\ end_db = 0
    /\ end_idx = 0
    /\ fs = <<48000, 0>>
    /\ NoRegression

NextDecay == SStart \/ SSum \/ SMax \/ SDb

SpecDecay == InitDecay /\ [][NextDecay]_vars

---------------------------------------------------------------------------
(* Claims about schroeder_integral *)

RECURSIVE TotalEnergy(_)
\* the energy of a whole response, summed from its first sample on
TotalEnergy(s) ==
    IF s = <<>> THEN <<0, 0>> ELSE EAdd(Square(Head(s)), TotalEnergy(Tail(s)))

\* the response is zero from index j on
SilentFrom(j) == \A t \in (j + 1)..ir_len : ir[t] = 0

\* the curve does not rise from any index to the next
NonIncreasing ==
    \A j \in 0..(ir_len - 2) : Geq(decay_curve[j], decay_curve[j + 1])

\* C8: for a response of len >= 1 samples the energy curve of the backward
\* summation does not rise with the index, its last entry is the squared
\* last sample and its first entry is the total energy of the response.
C8_EnergyCurve ==
    pc = "s_max" =>
      /\ NonIncreasing
      /\ decay_curve[ir_len - 1] = Energy(Square(ir[ir_len]))
      /\ decay_curve[0] = Energy(TotalEnergy(ir))

\* a summed curve that falls somewhere and ends above zero
C8_Witness ==
    /\ pc = "s_max"
    /\ ir_len >= 2
    /\ EPositive(decay_curve[ir_len - 1].e)
    /\ \E j \in 0..(ir_len - 2) : ~Geq(decay_curve[j + 1], decay_curve[j])

\* C9: the curve schroeder_integral returns does not rise with the index,
\* starts at 0 dB unless the response is silent, and holds -100 at every
\* index from which on the response is zero, the all-zero response included.
C9_DecayCurveDb ==
    pc = "s_done" =>
      /\ NonIncreasing
      /\ ~SilentFrom(0) => IsConst(decay_curve[0], 0)
      /\ \A j \in 0..(ir_len - 1) :
           SilentFrom(j) => IsConst(decay_curve[j], FloorDb)

---------------------------------------------------------------------------
(* ir_analyze: calculate_decay_time, the search of the interval *)

(***************************************************************************)
(* The curve is any sequence of dB values, here whole numbers, which the   *)
(* comparisons of the code order as they order the doubles.  The           *)
(* search ends either returning -1.0 or at the regression.                 *)
(***************************************************************************)

\* longest curve
MaxCurve == 4

\* dB values of the curves: the levels main asks for, and values between
\* and beyond them
CurveVals == {0, -5, -10, -15, -20, -25, -30}

\* <<start_db, end_db>>: the two calls of main, and one more
Levels == {<<-5, -15>>, <<-5, -25>>, <<-10, -20>>}

curve_len == IF decay_curve = <<>> THEN 0 ELSE Cardinality(DOMAIN decay_curve)

\* a search that marks the start at any value at or below start_db
StartCond_NoLower(v, sdb, edb) == v <= sdb

\* decay_curve[i] <= start_db && decay_curve[i] >= end_db
StartCond(v, sdb, edb) == v <= sdb /\ v >= edb

\* decay_curve[i] <= end_db
EndCond(v, edb) == v <= edb

\* *start_idx = -1; *end_idx = -1; for (int i = 0; ...
CStart ==
    /\ pc = "c_start"
    /\ start_idx' = -1
    /\ end_idx' = -1
    /\ i' = 0
    /\ pc' = "c_scan"
    /\ UNCHANGED regressVars
    /\ UNCHANGED <<runVars, ret, ir, decay_curve, sum, max_energy, start_db,
                   end_db>>

\* one pass of the for loop
CScan ==
    /\ pc = "c_scan"
    /\ IF i < curve_len
         THEN /\ start_idx' =
                   IF start_idx < 0 /\ StartCond(decay_curve[i], start_db, end_db)
                     THEN i ELSE start_idx
              /\ IF EndCond(decay_curve[i], end_db)
                   THEN end_idx' = i /\ pc' = "c_check" /\ UNCHANGED i
                   ELSE i' = i + 1 /\ UNCHANGED <<pc, end_idx>>
         ELSE pc' = "c_check" /\ UNCHANGED <<start_idx, end_idx, i>>
    /\ UNCHANGED regressVars
    /\ UNCHANGED <<runVars, ret, ir, decay_curve, sum, max_energy, start_db,
                   end_db>>

\* *start_idx < 0 || *end_idx < 0 || *end_idx <= *start_idx
NoInterval(s, e) == s < 0 \/ e < 0 \/ e <= s

\* if (...) return -1.0; else the regression follows
CCheck ==
    /\ pc = "c_check"
    /\ IF NoInterval(start_idx, end_idx)
         THEN ret' = -1 /\ pc' = "c_return"
         ELSE pc' = "c_regress" /\ UNCHANGED ret
    /\ UNCHANGED regressVars
    /\ UNCHANGED <<runVars, start_idx, end_idx, i, ir, decay_curve, sum,
                   max_energy, start_db, end_db>>

---------------------------------------------------------------------------
(* ir_analyze: calculate_decay_time, the regression *)

(***************************************************************************)
(* With x = i / fs the sums of the code are sum_x / fs, sum_y, sum_xy / fs *)
(* and sum_x2 / fs^2 of the whole numbers kept here, and the arithmetic of *)
(* the code is taken as exact.  A time is a fraction <<p, q>>, q > 0, of   *)
(* sample periods: p / (q * fs) seconds; -1.0 is <<-1, 1>>.                *)
(***************************************************************************)

\* sample rates of the analysed response
ScanRates == {48000, 192000}

\* the fs calculate_decay_time is given
ir_fs == fs[1]

Abs(a) == IF a < 0 THEN -a ELSE a

\* n * sum_x2 - sum_x * sum_x, in units of 1 / fs^2
Denominator(cnt, sx, sx2) == cnt * sx2 - sx * sx

\* n * sum_xy - sum_x * sum_y, in units of 1 / fs
SlopeNumerator(cnt, sxy, sx, sy) == cnt * sxy - sx * sy

\* fabs(denominator) < 1e-10 for denominator = D / f^2, f below 1 MHz:
\* |D| * 10^10 < f^2, both sides split at 10^6
TinyDenominator(D, f) ==
    LET a == f \div 1000
        b == f % 1000
        low == 2 * a * b * 1000 + b * b
        top == a * a + (low \div 10^6)
        rest == low % 10^6
    IN  Abs(D) * 10^4 < top \/ (Abs(D) * 10^4 = top /\ rest > 0)

\* slope >= 0, for slope = fs * A / D
SlopeNotFalling(A, D) == A * D >= 0

\* -60.0 / slope, in sample periods
DecayTime(A, D) == <<60 * Abs(D), Abs(A)>>

\* sum_x = sum_y = sum_xy = sum_x2 = 0.0; n = *end_idx - *start_idx + 1
CRegress ==
    /\ pc = "c_regress"
    /\ sum_x' = 0
    /\ sum_y' = 0
    /\ sum_xy' = 0
    /\ sum_x2' = 0
    /\ n_pts' = end_idx - start_idx + 1
    /\ i' = start_idx
    /\ pc' = "c_sum"
    /\ UNCHANGED <<runVars, ret, start_idx, end_idx, ir, decay_curve, sum,
                   max_energy, start_db, end_db, rt60, rt60_tn>>

\* one pass of for (int i = *start_idx; i <= *end_idx; i++)
CSum ==
    /\ pc = "c_sum"
    /\ IF i <= end_idx
         THEN /\ sum_x' = sum_x + i
              /\ sum_y' = sum_y + decay_curve[i]
              /\ sum_xy' = sum_xy + i * decay_curve[i]
              /\ sum_x2' = sum_x2 + i * i
              /\ i' = i + 1
              /\ pc' = pc
         ELSE /\ pc' = "c_slope"
              /\ UNCHANGED <<sum_x, sum_y, sum_xy, sum_x2, i>>
    /\ UNCHANGED <<runVars, ret, start_idx, end_idx, ir, decay_curve, sum,
                   max_energy, start_db, end_db, n_pts, rt60, rt60_tn>>

\* the denominator test, the slope test and return rt60
CSlope ==
    /\ pc = "c_slope"
    /\ LET D == Denominator(n_pts, sum_x, sum_x2)
           A == SlopeNumerator(n_pts, sum_xy, sum_x, sum_y)
       IN  IF TinyDenominator(D, ir_fs) \/ SlopeNotFalling(A, D)
             THEN ret' = -1 /\ pc' = "c_flat" /\ UNCHANGED rt60
             ELSE /\ rt60' = DecayTime(A, D)
                  /\ pc' = "c_rt60"
                  /\ UNCHANGED ret
    /\ UNCHANGED <<runVars, start_idx, end_idx, i, ir, decay_curve, sum,
                   max_energy, start_db, end_db, sum_x, sum_y, sum_xy,
                   sum_x2, n_pts, rt60_tn>>

\* calculate_decay_time has returned
Returned == pc \in {"c_return", "c_flat", "c_rt60"}

\* the two calls of main: start_db, end_db and the factor applied
MainCalls == {<<-5, -15, 6>>, <<-5, -25, 3>>}

\* (t > 0) ? t * factor : -1.0
Extrapolate(t, factor) == IF t[1] > 0 THEN <<t[1] * factor, t[2]>> ELSE <<-1, 1>>

\* double rt60_t10 = (t10 > 0) ? t10 * 6.0 : -1.0, and the same for t20
IExtrapolate ==
    /\ Returned
    /\ \E c \in MainCalls :
         /\ start_db = c[1] /\ end_db = c[2]
         /\ rt60_tn' = Extrapolate(IF pc = "c_rt60" THEN rt60 ELSE <<-1, 1>>,
                                   c[3])
    /\ pc' = "i_rt60"
    /\ UNCHANGED <<runVars, ret, start_idx, end_idx, i, ir, decay_curve, sum,
                   max_energy, start_db, end_db, sum_x, sum_y, sum_xy,
                   sum_x2, n_pts, rt60>>

Curves == UNION {[0..(n - 1) -> CurveVals] : n \in 0..MaxCurve}

InitScan ==
    /\ NoRun
    /\ decay_curve \in Curves
    /\ \E l \in Levels : start_db = l[1] /\ end_db = l[2]
    /\ pc = "c_start"
    /\ i = 0
    /\ ret = 0
    /\ start_idx = 0
    /\ end_idx = 0
    /\ ir = <<>>
    /\ sum = <<0, 0>>
    /\ max_energy = <<0, 0>>
    /\ \E r \in ScanRates : fs = <<r, 0>>
    /\ NoRegression

NextScan == CStart \/ CScan \/ CCheck \/ CRegress \/ CSum \/ CSlope \/ IExtrapolate

SpecScan == InitScan /\ [][NextScan]_vars

---------------------------------------------------------------------------
(* Claims about the search of the interval *)

Indices == 0..(curve_len - 1)

\* the least element of a non-empty set of indices
Least(S) == CHOOSE j \in S : \A t \in S : j <= t

\* indices whose value lies between end_db and start_db
InWindow == {j \in Indices : end_db <= decay_curve[j] /\ decay_curve[j] <= start_db}

\* indices whose value is at or below end_db
AtEnd == {j \in Indices : decay_curve[j] <= end_db}

\* the search is over
Searched == pc \in {"c_return", "c_regress"}

\* the interval the statement as first made marks: the first index in the
\* window, and the first index from there on at or below end_db
FirstStart == Least(InWindow)
EndFrom(s) == {j \in AtEnd : j >= s}

\* C10 as first stated: start_idx is the first index in the window,
\* end_idx the first index from there on at or below end_db; -1.0 is returned
\* exactly when there is no such start, no such end or end_idx <= start_idx.
C10_AsStated ==
    Searched =>
      LET found == InWindow # {} /\ EndFrom(FirstStart) # {}
                   /\ Least(EndFrom(FirstStart)) > FirstStart
      IN  /\ InWindow # {} => start_idx = FirstStart
          /\ (InWindow # {} /\ EndFrom(FirstStart) # {})
                => end_idx = Least(EndFrom(FirstStart))
          /\ pc = "c_regress" <=> found
          /\ pc = "c_return" => ret = -1
          /\ pc = "c_regress" => start_idx < end_idx

\* where the scan stops: the first index at or below end_db, else the end
ScanStop == IF AtEnd = {} THEN curve_len - 1 ELSE Least(AtEnd)

\* window indices the scan visits
Visited == {j \in InWindow : j <= ScanStop}

NonIncreasingCurve ==
    \A j \in Indices : j + 1 \in Indices => decay_curve[j] >= decay_curve[j + 1]

\* C10: for every curve, end_idx is the first index at or below end_db
\* (-1 if there is none) and start_idx the first index in the window at or
\* before it (-1 if there is none); -1.0 is returned exactly when one of the
\* two is missing or end_idx <= start_idx, else the regression follows with
\* start_idx < end_idx.  On a curve that never rises this is the interval
\* of the statement as first made.
C10_Search ==
    Searched =>
      /\ end_idx = IF AtEnd = {} THEN -1 ELSE Least(AtEnd)
      /\ start_idx = IF Visited = {} THEN -1 ELSE Least(Visited)
      /\ pc = "c_return" <=> (Visited = {} \/ AtEnd = {} \/ end_idx <= start_idx)
      /\ pc = "c_return" => ret = -1
      /\ pc = "c_regress" => start_idx < end_idx
      /\ NonIncreasingCurve => C10_AsStated

\* a curve that rises, with a window index behind the first index at or
\* below end_db, and a curve on which the regression is reached
C10_Witness ==
    /\ Searched
    /\ \/ /\ pc = "c_return" /\ ~NonIncreasingCurve
          /\ InWindow # {} /\ Visited = {} /\ AtEnd # {}
       \/ /\ pc = "c_regress" /\ start_idx >= 1 /\ end_idx > start_idx + 1

---------------------------------------------------------------------------
(* Claims about the regression *)

\* an interval was marked and the regression has run on it
Regressed ==
    /\ pc \in {"c_rt60", "c_flat", "i_rt60"}
    /\ ~NoInterval(start_idx, end_idx)

\* the curve falls by d dB per sample, that is by s = d * fs dB per second,
\* from start_idx to end_idx
LinearFall(d) ==
    \A j \in start_idx..end_idx :
        decay_curve[j] = decay_curve[start_idx] - d * (j - start_idx)

\* per-sample falls of the curves
Falls == 1..30

\* C11: on a curve that is linear with slope -s dB per second over the
\* marked interval calculate_decay_time returns (start_db - end_db) / s, and
\* the RT60 main derives from it (times 6 for T10, times 3 for T20) is 60 / s.
C11_DecayTime ==
    Regressed =>
      \A d \in Falls :
          LinearFall(d) =>
            /\ pc = "c_rt60" => SameValue(rt60, <<start_db - end_db, d>>)
            /\ pc = "i_rt60" => SameValue(rt60_tn, <<60, d>>)

---------------------------------------------------------------------------
(* The spectra of tsp_gen (H) and tsp_to_ir (INV_FILTER) *)

(***************************************************************************)
(* A real number is a whole number, or the cos or sin of an angle, kept    *)
(* as a term; an angle theta is the fraction <<p, q>> of a turn,           *)
(* theta = 2 pi p / q.  cos and sin are evaluated only at theta = 0; at    *)
(* any other angle sin is a term that is not zero, as the sin of a double  *)
(* other than 0.0 is.  The size N, 262144 in tsp_gen, is drawn from the    *)
(* small powers of two.                                                    *)
(***************************************************************************)

\* largest log2 of the size N
MaxLog == 4

Num(c) == [f |-> "num", t |-> <<c, 1>>, neg |-> FALSE]
\* what malloc leaves
Junk == [f |-> "junk", t |-> <<0, 1>>, neg |-> FALSE]
Cos(t) == IF t[1] = 0 THEN Num(1) ELSE [f |-> "cos", t |-> t, neg |-> FALSE]
Sin(t) == IF t[1] = 0 THEN Num(0) ELSE [f |-> "sin", t |-> t, neg |-> FALSE]
Neg(r) == [r EXCEPT !.neg = ~r.neg]
IsZeroNum(r) == r.f = "num" /\ r.t[1] = 0

Complex(a, b) == [re |-> a, im |-> b]
\* cos(theta) + I * sin(theta)
Cexp(t) == Complex(Cos(t), Sin(t))
\* conj(z)
Conj(z) == [z EXCEPT !.im = Neg(z.im)]
\* creal(z) + 0 * I
RealOnly(z) == Complex(z.re, Num(0))

\* malloc(sizeof(double complex) * n)
Malloc(n) == [j \in 0..(n - 1) |-> Complex(Junk, Junk)]

\* -2 pi J (k/N)^2 - 2 pi k n0 / N
ThetaUp(len_j, shift, k, n) == <<-(len_j * k * k + k * shift * n), n * n>>

\* 2 pi J (k/N)^2
ThetaDown(len_j, k, n) == <<len_j * k * k, n * n>>

\* a loop that stops before the Nyquist bin
BinCond_BelowNyquist(k, n) == k < n \div 2

\* k <= N / 2
BinCond(k, n) == k <= n \div 2

\* k > 0 && k < N / 2
MirrorCond(k, n) == k > 0 /\ k < n \div 2

\* bin k set to z, and bin N - k to its conjugate where the code mirrors
Assign(buf, k, n, z) ==
    LET set == [buf EXCEPT ![k] = z]
    IN  IF MirrorCond(k, n) THEN [set EXCEPT ![n - k] = Conj(set[k])] ELSE set

\* buf[N / 2] = creal(buf[N / 2]) + 0 * I
NyquistFix(buf, n) == [buf EXCEPT ![n \div 2] = RealOnly(buf[n \div 2])]

spectrumFrame == <<prog, file, heap, phases, ioVars, N, max_len, overflow,
                   TSP, RESPONSE, start_idx, copy_len, ir, decay_curve, sum,
                   max_energy, start_db, end_db, end_idx, regressVars,
                   nlmsVars>>

\* tsp_gen: one pass of for (int k = 0; k <= N / 2; k++)
GSpectrum ==
    /\ pc = "g_spectrum"
    /\ IF BinCond(i, N)
         THEN /\ H' = Assign(H, i, N, Cexp(ThetaUp(J, n0, i, N)))
              /\ i' = i + 1
              /\ pc' = pc
         ELSE pc' = "g_nyquist" /\ UNCHANGED <<H, i>>
    /\ UNCHANGED <<spectrumFrame, INV_FILTER, J, n0>>

\* tsp_gen: H[N / 2] = creal(H[N / 2]) + 0 * I
GNyquist ==
    /\ pc = "g_nyquist"
    /\ H' = NyquistFix(H, N)
    /\ pc' = "g_ifft"
    /\ UNCHANGED <<spectrumFrame, INV_FILTER, J, n0, i>>

\* tsp_to_ir: int J = tsp_len / 2; INV_FILTER = malloc(...)
TFilterAlloc ==
    /\ pc = "f_alloc"
    /\ J' = CDiv(tsp_len, 2)
    /\ INV_FILTER' = Malloc(N)
    /\ i' = 0
    /\ pc' = "f_spectrum"
    /\ UNCHANGED <<spectrumFrame, H, n0>>

\* tsp_to_ir: one pass of for (int k = 0; k <= N / 2; k++)
TFilter ==
    /\ pc = "f_spectrum"
    /\ IF BinCond(i, N)
         THEN /\ INV_FILTER' = Assign(INV_FILTER, i, N, Cexp(ThetaDown(J, i, N)))
              /\ i' = i + 1
              /\ pc' = pc
         ELSE pc' = "f_nyquist" /\ UNCHANGED <<INV_FILTER, i>>
    /\ UNCHANGED <<spectrumFrame, H, J, n0>>

\* tsp_to_ir: INV_FILTER[N / 2] = creal(INV_FILTER[N / 2]) + 0 * I
TFilterNyquist ==
    /\ pc = "f_nyquist"
    /\ INV_FILTER' = NyquistFix(INV_FILTER, N)
    /\ pc' = "f_divide"
    /\ UNCHANGED <<spectrumFrame, H, J, n0, i>>

\* the sizes: tsp_gen has N >= 2, tsp_to_ir computes any power of two
SpectrumSizes(p) == {2^e : e \in (IF p = "tsp_gen" THEN 1 ELSE 0)..MaxLog}

RECURSIVE PowerOfTwoFrom(_, _)
\* N = 1; while (N < max_len) N <<= 1, from N = n on
PowerOfTwoFrom(n, m) == IF SizeLoopCond(n, m) THEN PowerOfTwoFrom(2 * n, m) ELSE n

\* tsp_gen after the allocation of H, tsp_to_ir after the two transforms
InitSpectrum ==
    /\ prog \in {"tsp_gen", "tsp_to_ir"}
    /\ N \in SpectrumSizes(prog)
    /\ IF prog = "tsp_gen"
         THEN /\ pc = "g_spectrum"
              /\ len = <<0, 0>>
              /\ max_len = 0
              /\ J = N \div 2
              /\ n0 = N \div 4
              /\ H = Malloc(N)
              /\ heap = {"H"}
         ELSE /\ pc = "f_alloc"
              /\ len \in (0..N) \X (0..N)
              /\ max_len = Max(len[1], len[2])
              /\ PowerOfTwoFrom(1, max_len) = N
              /\ J = 0
              /\ n0 = 0
              /\ H = <<>>
              /\ heap = {"tsp_samples", "response_samples", "TSP", "RESPONSE"}
    /\ INV_FILTER = <<>>
    /\ i = 0
    /\ file = <<Missing, Missing>>
    /\ handles = {}
    /\ exit = -1
    /\ outOpened = FALSE
    /\ ioFailed = FALSE
    /\ failKind = "none"
    /\ phases = {}
    /\ rwk = IF prog = "tsp_gen" THEN 1 ELSE 2
    /\ num_samples = len[2]
    /\ ret = len[2]
    /\ samples = <<<<>>, <<>>>>
    /\ fs = <<48000, 48000>>
    /\ overflow = FALSE
    /\ TSP = <<>>
    /\ RESPONSE = <<>>
    /\ start_idx = 0
    /\ copy_len = 0
    /\ ir = <<>>
    /\ decay_curve = <<>>
    /\ sum = <<0, 0>>
    /\ max_energy = <<0, 0>>
    /\ start_db = 0
    /\ end_db = 0
    /\ end_idx = 0
    /\ NoRegression
    /\ NoNlms

NextSpectrum == GSpectrum \/ GNyquist \/ TFilterAlloc \/ TFilter \/ TFilterNyquist

SpecSpectrum == InitSpectrum /\ [][NextSpectrum]_vars

---------------------------------------------------------------------------
(* Claims about the spectra *)

\* the spectrum that was built, once the fix-up of the Nyquist bin is done
Built == IF prog = "tsp_gen" THEN H ELSE INV_FILTER
SpectrumDone == pc \in {"g_ifft", "f_divide"}

Assigned(z) == z.re.f # "junk" /\ z.im.f # "junk"

\* C12: for every power-of-two N >= 2, after the loop and the Nyquist
\* fix-up every bin 0..N-1 of H (tsp_gen) and of INV_FILTER (tsp_to_ir) is
\* assigned, bin N-k is the conjugate of bin k for 1 <= k < N/2, and bins 0
\* and N/2 have zero imaginary part.
C12_Hermitian ==
    (SpectrumDone /\ N >= 2) =>
      /\ \A k \in 0..(N - 1) : Assigned(Built[k])
      /\ \A k \in 1..(N \div 2 - 1) : Built[N - k] = Conj(Built[k])
      /\ IsZeroNum(Built[0].im)
      /\ IsZeroNum(Built[N \div 2].im)

\* a finished spectrum with mirrored bins whose imaginary part is not zero
C12_Witness ==
    /\ SpectrumDone
    /\ N >= 8
    /\ \E k \in 1..(N \div 2 - 1) :
         /\ ~IsZeroNum(Built[k].im)
         /\ Built[N - k].im = Neg(Built[k].im)

---------------------------------------------------------------------------
(* adaptive_filter: nlms_adaptive_filter *)

(***************************************************************************)
(* The doubles are fractions <<p, q>> in lowest terms, q > 0, and the      *)
(* arithmetic of the code is taken as exact.  The signals are samples      *)
(* divided by 32768.0 as main converts them; mu and beta are parameters    *)
(* of the function (main passes 0.1 and 1e-6) and are drawn from values    *)
(* whose fractions stay small.                                             *)
(***************************************************************************)

\* longest input signal
MaxSamples == 3
\* largest filter_len
MaxFilter == 3

RECURSIVE Gcd(_, _)
Gcd(a, b) == IF b = 0 THEN a ELSE Gcd(b, a % b)

\* p / q in lowest terms
Frac(p, q) ==
    LET g == Gcd(Abs(p), Abs(q))
        s == IF q < 0 THEN -1 ELSE 1
    IN  <<(s * p) \div g, (s * q) \div g>>

RAdd(a, b) == Frac(a[1] * b[2] + b[1] * a[2], a[2] * b[2])
RSub(a, b) == Frac(a[1] * b[2] - b[1] * a[2], a[2] * b[2])
RMul(a, b) == Frac(a[1] * b[1], a[2] * b[2])
RDiv(a, b) == Frac(a[1] * b[2], a[2] * b[1])

\* 16-bit samples of the two signals
NlmsInputs == {0, -32768, 16384}
NlmsOutputs == {0, -32768}
\* <<mu, beta>>
NlmsParams == {<<Frac(1, 2), Zero>>, <<Frac(1, 2), Frac(1, 1)>>}

\* x[i] = (double)input_samples[i] / 32768.0
Converted(s) == [j \in 0..(Len(s) - 1) |-> Frac(s[j + 1], FullScale)]

x_len == Cardinality(DOMAIN x)

\* a shift that runs upward and so smears x_buf[0] over the line
Shifted_Upward(buf, cnt, v) == [j \in 0..(cnt - 1) |-> IF j = 0 THEN v ELSE buf[0]]

\* for (i = filter_len - 1; i > 0; i--) x_buf[i] = x_buf[i - 1];
\* x_buf[0] = x[n]
Shifted(buf, cnt, v) == [j \in 0..(cnt - 1) |-> IF j = 0 THEN v ELSE buf[j - 1]]

RECURSIVE Dot(_, _, _)
\* y_hat: the sum of a[i] * b[i] for i below cnt
Dot(a, b, cnt) ==
    IF cnt = 0 THEN Zero ELSE RAdd(Dot(a, b, cnt - 1), RMul(a[cnt - 1], b[cnt - 1]))

RECURSIVE Power(_, _, _)
\* x_power: start plus the sum of buf[i] * buf[i] for i below cnt
Power(start, buf, cnt) ==
    IF cnt = 0 THEN start
    ELSE RAdd(Power(start, buf, cnt - 1), RMul(buf[cnt - 1], buf[cnt - 1]))

\* x_power > 1e-10: a positive fraction p / q whose terms fit 32 bits has
\* q / p < 2^31 < 10^10
AboveEps(pw) == pw[1] >= 1

\* an update that leaves the error out
Updated_NoError(coef, pw, step_mu, er, buf) ==
    [j \in DOMAIN coef |-> RAdd(coef[j], RMul(RDiv(step_mu, pw), buf[j]))]

\* step = mu / x_power; h[i] += step * e * x_buf[i]
Updated(coef, pw, step_mu, er, buf) ==
    [j \in DOMAIN coef |->
        RAdd(coef[j], RMul(RMul(RDiv(step_mu, pw), er), buf[j]))]

nlmsFrame == <<prog, file, phases, ioVars, N, max_len, overflow, TSP,
               RESPONSE, start_idx, copy_len, i, ir, decay_curve, sum,
               max_energy, start_db, end_db, end_idx, regressVars,
               spectrumVars, x, y, mu, beta, filter_len>>

\* h[i] = 0.0 for every i; x_buf = calloc(filter_len, sizeof(double))
NInit ==
    /\ pc = "n_init"
    /\ h' = [j \in 0..(filter_len - 1) |-> Zero]
    /\ x_buf' = Calloc(filter_len)
    /\ heap' = heap \cup {"x_buf"}
    /\ n_idx' = 0
    /\ pc' = "n_shift"
    /\ UNCHANGED <<nlmsFrame, y_hat, err, x_power>>

\* the test of for (int n = 0; n < x_len; n++) and the update of the delay
\* line; with filter_len = 0 the write of x_buf[0] is out of bounds
NShift ==
    /\ pc = "n_shift"
    /\ IF n_idx < x_len
         THEN IF filter_len >= 1
                THEN /\ x_buf' = Shifted(x_buf, filter_len, x[n_idx])
                     /\ pc' = "n_predict"
                ELSE pc' = "undefined" /\ UNCHANGED x_buf
         ELSE pc' = "n_free" /\ UNCHANGED x_buf
    /\ UNCHANGED <<nlmsFrame, heap, h, y_hat, err, x_power, n_idx>>

\* y_hat, e = y[n] - y_hat, and x_power = beta + sum of x_buf[i]^2
NPredict ==
    /\ pc = "n_predict"
    /\ y_hat' = Dot(h, x_buf, filter_len)
    /\ err' = RSub(y[n_idx], y_hat')
    /\ x_power' = Power(beta, x_buf, filter_len)
    /\ pc' = "n_update"
    /\ UNCHANGED <<nlmsFrame, heap, h, x_buf, n_idx>>

\* if (x_power > 1e-10) { ... h[i] += step * e * x_buf[i] ... }; n++
NUpdate ==
    /\ pc = "n_update"
    /\ h' = IF AboveEps(x_power) THEN Updated(h, x_power, mu, err, x_buf) ELSE h
    /\ n_idx' = n_idx + 1
    /\ pc' = "n_shift"
    /\ UNCHANGED <<nlmsFrame, heap, x_buf, y_hat, err, x_power>>

\* free(x_buf)
NFree ==
    /\ pc = "n_free"
    /\ heap' = heap \ {"x_buf"}
    /\ pc' = "n_done"
    /\ UNCHANGED <<nlmsFrame, h, x_buf, y_hat, err, x_power, n_idx>>

\* main at the call: x and y of min_len samples, h = calloc(filter_len, ...)
InitNlms ==
    /\ prog = "adaptive_filter"
    /\ pc = "n_init"
    /\ \E sx \in SeqsUpTo(NlmsInputs, MaxSamples) :
         /\ x = Converted(sx)
         /\ \E sy \in [1..Len(sx) -> NlmsOutputs] : y = Converted(sy)
    /\ filter_len \in 0..MaxFilter
    /\ h = Calloc(filter_len)
    /\ \E par \in NlmsParams : mu = par[1] /\ beta = par[2]
    /\ x_buf = <<>>
    /\ y_hat = Zero
    /\ err = Zero
    /\ x_power = Zero
    /\ n_idx = 0
    /\ heap = {"input_samples", "output_samples", "x", "y", "h"}
    /\ file = <<Missing, Missing>>
    /\ handles = {}
    /\ exit = -1
    /\ outOpened = FALSE
    /\ ioFailed = FALSE
    /\ failKind = "none"
    /\ phases = {"convert"}
    /\ rwk = 2
    /\ num_samples = x_len
    /\ ret = 0
    /\ samples = <<<<>>, <<>>>>
    /\ fs = <<48000, 48000>>
    /\ len = <<x_len, x_len>>
    /\ N = 0
    /\ max_len = 0
    /\ overflow = FALSE
    /\ TSP = <<>>
    /\ RESPONSE = <<>>
    /\ start_idx = 0
    /\ copy_len = 0
    /\ i = 0
    /\ ir = <<>>
    /\ decay_curve = <<>>
    /\ sum = <<0, 0>>
    /\ max_energy = <<0, 0>>
    /\ start_db = 0
    /\ end_db = 0
    /\ end_idx = 0
    /\ NoRegression
    /\ NoSpectrum

NextNlms == NInit \/ NShift \/ NPredict \/ NUpdate \/ NFree

SpecNlms == InitNlms /\ [][NextNlms]_vars

---------------------------------------------------------------------------
(* Claims about nlms_adaptive_filter *)

Min(a, b) == IF a < b THEN a ELSE b

AllZero(buf) == \A j \in DOMAIN buf : IsZero(buf[j])

\* C13: with filter_len = L >= 1 the coefficients and the delay line are
\* all zero before the first sample, and after the delay-line update of
\* sample n the line holds x_buf[i] = x[n-i] for 0 <= i <= min(n, L-1) and
\* x_buf[i] = 0 for n < i < L.
C13_DelayLine ==
    filter_len >= 1 =>
      /\ (pc = "n_shift" /\ n_idx = 0) =>
            /\ DOMAIN h = 0..(filter_len - 1) /\ AllZero(h)
            /\ DOMAIN x_buf = 0..(filter_len - 1) /\ AllZero(x_buf)
      /\ pc = "n_predict" =>
            /\ \A j \in 0..Min(n_idx, filter_len - 1) : x_buf[j] = x[n_idx - j]
            /\ \A j \in (n_idx + 1)..(filter_len - 1) : IsZero(x_buf[j])

\* a line longer than the samples seen, and a line shorter than them, with
\* distinct samples in it
C13_Witness ==
    /\ pc = "n_predict"
    /\ \/ filter_len > n_idx + 1 /\ n_idx >= 1 /\ x_buf[0] # x_buf[1]
             /\ ~IsZero(x_buf[1])
       \/ filter_len >= 2 /\ n_idx >= filter_len /\ x_buf[0] # x_buf[1]
             /\ x[0] # x[n_idx - filter_len + 1]

\* the number of input samples that have entered the delay line
Seen == IF pc \in {"n_predict", "n_update"} THEN n_idx + 1 ELSE n_idx

\* every input sample seen so far is zero
ZeroSoFar == \A j \in 0..(Seen - 1) : IsZero(x[j])

\* P = beta + the sum of x_buf[i]^2, and e = y[n] - the sum of h[i] x_buf[i]
InputPower == Power(beta, x_buf, filter_len)
Error == RSub(y[n_idx], Dot(h, x_buf, filter_len))

\* C14: on a sample step where P = beta + sum of x_buf[i]^2 does not exceed
\* 1e-10 the coefficients are left unchanged, on a step where it does each
\* h[i] changes by exactly (mu / P) * e * x_buf[i]; and h is all zero for
\* as long as every input sample seen so far is zero, for any beta >= 0.
C14_Update ==
    /\ [](ZeroSoFar => AllZero(h))
    /\ [][pc = "n_update" =>
            /\ ~AboveEps(InputPower) => h' = h
            /\ AboveEps(InputPower) =>
                 \A j \in 0..(filter_len - 1) :
                     RSub(h'[j], h[j]) =
                         RMul(RMul(RDiv(mu, InputPower), Error), x_buf[j])]_vars

\* after a skipped step (zero input, beta = 0) and a step that changed h, a
\* third step is about to change it again
C14_Witness ==
    /\ pc = "n_update"
    /\ n_idx >= 2
    /\ IsZero(beta) /\ IsZero(x[0])
    /\ ~AllZero(h)
    /\ AboveEps(x_power) /\ ~IsZero(err) /\ ~IsZero(x_buf[0])

---------------------------------------------------------------------------
(* tsp_to_ir: the accesses of the two fill loops, for lengths of any size *)

(***************************************************************************)
(* The state is that of InitSize: both reads have succeeded, so            *)
(* tsp_samples holds tsp_len samples and response_samples response_len.    *)
(* The contents of the buffers are not kept.  Of a long loop the first     *)
(* passes and the last are modelled; the passes between them access the    *)
(* indices between.                                                        *)
(***************************************************************************)

\* passes modelled at the head of a loop
MaxPass == 2

\* a - b leaves the range of a 32-bit int
SubOverflows(a, b) ==
    \/ b < 0 /\ a > IntMax + b
    \/ b > 0 /\ a < (-IntMax - 1) + b

\* tsp_len * 2 leaves the range of a 32-bit int
DoubleOverflows(E) == E > IntMaxDiv(2) \/ E < -IntMaxDiv(2) - 1

\* buf[idx] lies inside a buffer of cnt elements
InBounds(idx, cnt) == 0 <= idx /\ idx < cnt

\* the index of the next modelled pass of a loop of cnt passes
NextIndex(idx, cnt) ==
    IF idx < MaxPass \/ idx + 1 >= cnt - 1 THEN idx + 1 ELSE cnt - 1

\* TSP = calloc(N, ...); for (int i = 0; ...
BTspAlloc ==
    /\ pc = "t_tsp_alloc"
    /\ heap' = heap \cup {"TSP"}
    /\ i' = 0
    /\ pc' = "b_tsp_fill"
    /\ UNCHANGED <<prog, file, phases, ioVars, N, max_len, overflow, TSP,
                   RESPONSE, start_idx, copy_len>>
    /\ UNCHANGED analysisVars

\* one pass of the loop: the read of tsp_samples[i] and the write of TSP[i]
BTspFill ==
    /\ pc = "b_tsp_fill"
    /\ IF i < tsp_len
         THEN IF InBounds(i, tsp_len) /\ InBounds(i, N)
                THEN i' = NextIndex(i, tsp_len) /\ pc' = pc
                ELSE pc' = "undefined" /\ UNCHANGED i
         ELSE pc' = "b_resp_alloc" /\ UNCHANGED i
    /\ UNCHANGED <<prog, file, heap, phases, ioVars, N, max_len, overflow,
                   TSP, RESPONSE, start_idx, copy_len>>
    /\ UNCHANGED analysisVars

\* RESPONSE = calloc(N, ...); start_idx and copy_len, in 32-bit arithmetic
BRespAlloc ==
    /\ pc = "b_resp_alloc"
    /\ heap' = heap \cup {"RESPONSE"}
    /\ IF DoubleOverflows(tsp_len)
         THEN /\ overflow' = TRUE
              /\ pc' = "undefined"
              /\ UNCHANGED <<start_idx, copy_len, i>>
         ELSE /\ start_idx' = StartIdx(tsp_len, response_len)
              /\ IF SubOverflows(response_len, start_idx')
                   THEN /\ overflow' = TRUE
                        /\ pc' = "undefined"
                        /\ UNCHANGED <<copy_len, i>>
                   ELSE /\ copy_len' = CopyLen(response_len, start_idx', N)
                        /\ i' = 0
                        /\ pc' = "b_resp_fill"
                        /\ UNCHANGED overflow
    /\ UNCHANGED <<prog, file, phases, ioVars, N, max_len, TSP, RESPONSE>>
    /\ UNCHANGED analysisVars

\* one pass of the loop: the read of response_samples[start_idx + i] and the
\* write of RESPONSE[i]
BRespFill ==
    /\ pc = "b_resp_fill"
    /\ IF i < copy_len
         THEN IF InBounds(start_idx + i, response_len) /\ InBounds(i, N)
                THEN i' = NextIndex(i, copy_len) /\ pc' = pc
                ELSE pc' = "undefined" /\ UNCHANGED i
         ELSE pc' = "t_resp_fft" /\ UNCHANGED i
    /\ UNCHANGED <<prog, file, heap, phases, ioVars, N, max_len, overflow,
                   TSP, RESPONSE, start_idx, copy_len>>
    /\ UNCHANGED analysisVars

NextFill == TSize \/ TSizeLoop \/ BTspAlloc \/ BTspFill \/ BRespAlloc \/ BRespFill

SpecFill == InitSize /\ [][NextFill]_vars

---------------------------------------------------------------------------
(* Claims about the fill loops *)

\* C15: for every E >= 0 and R >= 0 returned by read_wav every access of the
\* fill loops is in bounds: 0 <= start_idx + i < R for the reads of
\* response_samples, i < E for the reads of tsp_samples, 0 <= i < N for the
\* writes of TSP and RESPONSE; E * 2 and the copy length stay within a
\* 32-bit signed int.
C15_InBounds ==
    /\ tsp_len >= 0 /\ response_len >= 0
    /\ ~overflow
    /\ pc # "undefined"
    /\ tsp_len * 2 <= IntMax
    /\ (pc = "b_tsp_fill" /\ i < tsp_len) =>
         /\ 0 <= i /\ i < tsp_len
         /\ i < N
    /\ pc \in {"b_resp_fill", "t_resp_fft"} =>
         /\ 0 <= copy_len /\ copy_len <= N
         /\ copy_len <= response_len - start_idx
    /\ (pc = "b_resp_fill" /\ i < copy_len) =>
         /\ 0 <= start_idx + i /\ start_idx + i < response_len
         /\ 0 <= i /\ i < N

\* the last pass over the second period of the longest response
C15_Witness ==
    /\ pc = "b_resp_fill"
    /\ tsp_len = 2^29 - 1
    /\ start_idx = tsp_len
    /\ i = copy_len - 1
    /\ start_idx + i = 2^30 - 2

====
